---- MODULE Spec2Model ----
(***************************************************************************)
(* The MiniLogo playground of langium-minilogo/src/static: the execution   *)
(* state store (ExecutionManager), the replay engine (CanvasManager), the  *)
(* timeline controls (TimelineManager) and the wiring of main(): the       *)
(* freeze button and the debounced DocumentChange handler.                 *)
(***************************************************************************)
EXTENDS Integers, Sequences, FiniteSets, TLC

VARIABLES
    executionStates, \* ExecutionManager.executionStates: the ordered store
    currentStep,     \* ExecutionManager.currentStep: the scrub cursor
    running,         \* main: let running
    timeout,         \* main: the pending debounce timer (its notification's commands)
    calls,           \* setCurrentStep calls awaiting their Promise.all
    intervals,       \* the setInterval timers of the render passes, in firing order
    painted,         \* per state: commands dispatched on its canvas since the last clearRect
    graph,           \* the timeline rows built by the last updateExecutionGraph
    docText,         \* the editor document, wrapper.getModel().getValue()
    mainCode,        \* window.localStorage slot "mainCode"
    lastRun,         \* branch taken by the latest DocumentChange timeout callback
    deferred,        \* commands of a notification returned at the running guard, not superseded
    nvIn,            \* getNextVersionNumber probe: the parent and the children's last components
    nvOut,           \* getNextVersionNumber probe: the version returned
    lastCall,        \* the latest call made on the store directly, and what came of it
    decorations,     \* the decorations of the editor, in the order deltaDecorations added them
    debounce         \* the latest notification that set the debounce timer, and whether
                     \* it replaced a pending one

vars == <<executionStates, currentStep, running, timeout, calls, intervals, painted, graph,
          docText, mainCode, lastRun, deferred, nvIn, nvOut, lastCall, decorations, debounce>>

-----------------------------------------------------------------------------
(* Bounds of the model *)

MaxStates == 2       \* states in the store, with the timeline controls in use
MaxUiCalls == 1      \* step, slider and command-click renders in flight at once
MaxStoreStates == 3  \* states in the store, with freeze, restore and live updates alone
MaxChild == 11       \* largest child number in the getNextVersionNumber probe
MaxTurtleStep == 4   \* largest slider position in the replay of drawing commands
MaxDecorations == 2  \* decorations the editor holds before the clicks on command nodes stop
MaxLegacyCalls == 2  \* renders in flight at once in the legacy main

-----------------------------------------------------------------------------
(* Values *)

Max(a, b) == IF a >= b THEN a ELSE b
Min(a, b) == IF a <= b THEN a ELSE b

\* null, and the empty string: the code only tests either for falsiness
Null == <<>>

\* a timer slot or a probe slot: empty, or holding one value
NoTimer == <<>>
NoList == <<>>
Absent == "absent"

PenDown == [name |-> "penDown", x |-> 0, y |-> 0]
Move == [name |-> "move", x |-> 1, y |-> 0]
Commands == {PenDown, Move}

PenUp == [name |-> "penUp", x |-> 0, y |-> 0]
MoveRight == [name |-> "move", x |-> 100, y |-> 0]
MoveDown == [name |-> "move", x |-> 0, y |-> 100]
\* a command whose name dispatchCommand has no case for
Jump == [name |-> "jump", x |-> 0, y |-> 0]

\* the lists a DocumentChange notification carries in $commands
CommandLists == {<<>>, <<Move>>}
StoreCommandLists == {<<>>, <<Move>>, <<PenDown, Move>>}
TurtleCommandLists == {<<>>, <<MoveRight, PenDown, MoveDown, PenUp>>, <<Jump, MoveRight>>}

\* the positions the slider and the command nodes offer, one beyond either end included
StepInputs == {0 - 1, 0, 1, 2}

\* the indexes restoreExecutionState is called with, one beyond either end included
RestoreInputs == (0 - 1)..MaxStates

DefaultCode == "def"
Texts == {"", "def"}

-----------------------------------------------------------------------------
(* Version strings: sequences of characters *)

Digits == <<"0", "1", "2", "3", "4", "5", "6", "7", "8", "9">>

DigitVal(c) == (CHOOSE d \in 1..10 : Digits[d] = c) - 1

\* `${n}` of a non-negative integer
RECURSIVE NumToStr(_)
NumToStr(n) ==
    IF n < 10 THEN <<Digits[n + 1]>>
    ELSE NumToStr(n \div 10) \o <<Digits[(n % 10) + 1]>>

\* parseInt of a string of decimal digits
RECURSIVE ParseIntFrom(_, _)
ParseIntFrom(s, acc) ==
    IF s = <<>> THEN acc
    ELSE ParseIntFrom(Tail(s), 10 * acc + DigitVal(Head(s)))

ParseInt(s) == ParseIntFrom(s, 0)

\* v.split('.')
RECURSIVE SplitFrom(_, _, _)
SplitFrom(s, cur, acc) ==
    IF s = <<>> THEN Append(acc, cur)
    ELSE IF Head(s) = "." THEN SplitFrom(Tail(s), <<>>, Append(acc, cur))
    ELSE SplitFrom(Tail(s), Append(cur, Head(s)), acc)

Split(v) == SplitFrom(v, <<>>, <<>>)

\* parts.join('.')
RECURSIVE Join(_)
Join(parts) ==
    IF Len(parts) = 0 THEN <<>>
    ELSE IF Len(parts) = 1 THEN parts[1]
    ELSE parts[1] \o <<".">> \o Join(Tail(parts))

Last(s) == s[Len(s)]

getParentVersionSkip(version) ==
    LET parts == Split(version)
    IN IF Len(parts) = 1 THEN Null ELSE Join(SubSeq(parts, 1, Len(parts) - 2))

getParentVersion(version) ==
    LET parts == Split(version)
    IN IF Len(parts) = 1 THEN Null ELSE Join(SubSeq(parts, 1, Len(parts) - 1))

RECURSIVE MaxOver(_, _)
MaxOver(nums, max) ==
    IF nums = <<>> THEN max ELSE MaxOver(Tail(nums), Max(max, Head(nums)))

LastComponent(v) ==
    LET p == Last(Split(v)) IN ParseInt(IF p = <<>> THEN <<"0">> ELSE p)

SiblingNumbers(states, parentVersion) ==
    LET sel == SelectSeq(states, LAMBDA st : st.parentVersion = parentVersion)
    IN [k \in 1..Len(sel) |-> LastComponent(sel[k].version)]

getNextVersionNumberCount(states, parentVersion) ==
    IF parentVersion = Null THEN <<"1">>
    ELSE LET siblings == SiblingNumbers(states, parentVersion)
         IN parentVersion \o <<".">> \o NumToStr(Len(siblings) + 1)

getNextVersionNumberMax(states, parentVersion) ==
    IF parentVersion = Null THEN <<"1">>
    ELSE parentVersion \o <<".">> \o NumToStr(MaxOver(SiblingNumbers(states, parentVersion), 0))

getNextVersionNumber(states, parentVersion) ==
    IF parentVersion = Null THEN <<"1">>
    ELSE LET siblings == SiblingNumbers(states, parentVersion)
         IN IF Len(siblings) = 0 THEN parentVersion \o <<".", "1">>
            ELSE parentVersion \o <<".">> \o NumToStr(MaxOver(siblings, 0) + 1)

-----------------------------------------------------------------------------
(* The store *)

NewStateRoot(version, parentVersion) ==
    [version |-> version, parentVersion |-> Null, commands |-> <<>>,
     code |-> "", isFrozen |-> FALSE, isActive |-> TRUE, isVisible |-> TRUE]

NewStateInactive(version, parentVersion) ==
    [version |-> version, parentVersion |-> parentVersion, commands |-> <<>>,
     code |-> "", isFrozen |-> FALSE, isActive |-> FALSE, isVisible |-> TRUE]

NewState(version, parentVersion) ==
    [version |-> version, parentVersion |-> parentVersion, commands |-> <<>>,
     code |-> "", isFrozen |-> FALSE, isActive |-> TRUE, isVisible |-> TRUE]

hasChildren(states, state) ==
    \E k \in 1..Len(states) : states[k].parentVersion = state.version

\* commands.slice(0, n)
Slice(commands, n) == SubSeq(commands, 1, Min(Max(n, 0), Len(commands)))

\* the rows updateExecutionGraph builds: the command nodes and the Change button
GraphOf(states) ==
    [k \in 1..Len(states) |->
        [commands |-> states[k].commands,
         change |-> states[k].isFrozen
                    /\ (~states[k].isActive \/ hasChildren(states, states[k]))]]

\* the code unit of a character of a version string: "." is below every digit
CharCode(c) == IF c = "." THEN 46 ELSE 48 + DigitVal(c)

StringLess(a, b) ==
    \E n \in 0..Min(Len(a), Len(b)) :
        /\ \A i \in 1..n : a[i] = b[i]
        /\ IF n < Min(Len(a), Len(b))
           THEN CharCode(a[n + 1]) < CharCode(b[n + 1])
           ELSE Len(a) < Len(b)

\* a > b on strings: the first differing code unit decides, a proper prefix is smaller
StringGreater(a, b) ==
    \E n \in 0..Min(Len(a), Len(b)) :
        /\ \A i \in 1..n : a[i] = b[i]
        /\ IF n < Min(Len(a), Len(b))
           THEN CharCode(a[n + 1]) > CharCode(b[n + 1])
           ELSE Len(a) > Len(b)

\* TimelineManager.isCurrentVersion(state)
isCurrentVersion(states, state) ==
    /\ state.isActive
    /\ ~\E k \in 1..Len(states) : states[k].parentVersion = state.version
    /\ ~\E k \in 1..Len(states) :
          states[k].isActive /\ StringGreater(states[k].version, state.version)

RECURSIVE IsInPathUp(_, _)
IsInPathUp(current, target) ==
    IF target = Null THEN FALSE
    ELSE IF target = current THEN TRUE
    ELSE IsInPathUp(current, getParentVersion(target))

\* the while loop of restoreExecutionState: does the walk from version reach target
RECURSIVE IsInPath(_, _)
IsInPath(current, target) ==
    IF current = Null THEN FALSE
    ELSE IF current = target THEN TRUE
    ELSE IsInPath(getParentVersion(current), target)

\* what the call restoreExecutionState(stateIndex) comes to, stateIndex counted from 0
\* as in the code: below 0, executionStates[stateIndex] is undefined and reading its
\* isFrozen throws
restoreResult(states, stateIndex) ==
    IF stateIndex >= Len(states) THEN "null"
    ELSE IF stateIndex < 0 THEN "TypeError"
    ELSE IF ~states[stateIndex + 1].isFrozen THEN "null"
    ELSE "state"

restoreExecutionStateUnchecked(states, stateIndex) ==
    IF stateIndex > Len(states) \/ stateIndex < 1 THEN states
    ELSE [k \in 1..Len(states) |->
            [states[k] EXCEPT !.isActive = IsInPath(states[k].version, states[stateIndex].version)]]

restoreExecutionStateTruncate(states, stateIndex) ==
    IF stateIndex > Len(states) \/ stateIndex < 1 THEN states
    ELSE SubSeq(states, 1, stateIndex)

\* the store after restoreExecutionState(stateIndex), stateIndex counted from 1; the
\* call that throws has assigned nothing
restoreExecutionState(states, stateIndex) ==
    IF stateIndex > Len(states) THEN states
    ELSE IF stateIndex < 1 THEN states
    ELSE IF ~states[stateIndex].isFrozen THEN states
    ELSE [k \in 1..Len(states) |->
            [states[k] EXCEPT !.isActive = IsInPath(states[k].version, states[stateIndex].version)]]

ClampStepNone(states, step) == step

\* the cursor setCurrentStep(step) stores
ClampStep(states, step) == Max(0, Min(step, Len(states[1].commands)))

\* the setInterval timers setCurrentStep starts, in the order of states.map: one per
\* active state, each on its own copy commands.slice(0, step)
RECURSIVE RenderPasses(_, _, _, _)
RenderPasses(states, step, id, k) ==
    IF k > Len(states) THEN <<>>
    ELSE (IF states[k].isActive
          THEN <<[call |-> id, k |-> k, cmds |-> Slice(states[k].commands, step)]>>
          ELSE <<>>) \o RenderPasses(states, step, id, k + 1)

ClearedAll(states, surf) == [k \in 1..Len(states) |-> <<>>]

ClearedNone(states, surf) == surf

\* clearRect on every surface a pass is started on
Cleared(states, surf) ==
    [k \in 1..Len(states) |-> IF states[k].isActive THEN <<>> ELSE surf[k]]

\* the reduce of the timeout callback: the last active state without children, 0 for -1
latestActiveIndex(states) ==
    LET S == {k \in 1..Len(states) : states[k].isActive /\ ~hasChildren(states, states[k])} IN
    IF S = {} THEN 0 ELSE CHOOSE k \in S : \A j \in S : k >= j

LiveUpdateAppliesAlways(states, idx) == idx > 0

\* the two ifs of the timeout callback
LiveUpdateApplies(states, idx) == idx > 0 /\ ~states[idx].isFrozen

LiveUpdateTargetRoot(states) == 1

\* the state the timeout callback assigns the new commands to, 0 when it assigns none
LiveUpdateTarget(states) ==
    LET idx == latestActiveIndex(states)
    IN IF LiveUpdateApplies(states, idx) THEN idx ELSE 0

ApplyLiveUpdateActive(states, idx, newCommands) ==
    [k \in 1..Len(states) |->
        IF states[k].isActive THEN [states[k] EXCEPT !.commands = newCommands] ELSE states[k]]

\* currentState.commands = newCommands
ApplyLiveUpdate(states, idx, newCommands) ==
    [states EXCEPT ![idx].commands = newCommands]

\* if (cmd.location)
HasLocation(cmd) == "location" \in DOMAIN cmd

\* editor.deltaDecorations([], [decoration of the range of location])
createDecorationFromLocation(decos, location) == Append(decos, location)

UiCallsInFlight == Cardinality({c \in 1..Len(calls) : calls[c].kind = "ui"})

RemoveAt(s, c) == SubSeq(s, 1, c - 1) \o SubSeq(s, c + 1, Len(s))

\* the timers left once call c has resolved: calls are numbered in the order they began
Renumber(timers, c) ==
    [j \in 1..Len(timers) |->
        IF timers[j].call > c THEN [timers[j] EXCEPT !.call = @ - 1] ELSE timers[j]]

-----------------------------------------------------------------------------
(* The 2d context of a surface: the current path, a sequence of subpaths of   *)
(* points, and the segments stroked since clearRect. The lines of the grid    *)
(* are left out.                                                              *)

Pt(x, y) == [x |-> x, y |-> y]

InitialContext == [path |-> <<>>, strokes |-> {}]

\* context.beginPath()
BeginPath(context) == [context EXCEPT !.path = <<>>]

\* context.moveTo(x, y)
MoveTo(context, p) == [context EXCEPT !.path = Append(@, <<p>>)]

\* context.lineTo(x, y)
LineTo(context, p) ==
    IF context.path = <<>> THEN MoveTo(context, p)
    ELSE [context EXCEPT !.path[Len(context.path)] = Append(@, p)]

\* context.stroke()
SegmentsOf(subpath) == {<<subpath[j], subpath[j + 1]>> : j \in 1..(Len(subpath) - 1)}

Stroke(context) ==
    [context EXCEPT !.strokes =
        @ \cup UNION {SegmentsOf(context.path[i]) : i \in 1..Len(context.path)}]

\* the let variables of updateMiniLogoCanvas: dispatchCommand receives their values,
\* and nothing assigns them
PassDrawing == FALSE
PassPosX == 0
PassPosY == 0

\* the context after dispatchCommand(cmd, context, drawing, posX, posY); the default
\* case throws with the context as it was
dispatchCommand(cmd, context, drawing, posX, posY) ==
    CASE cmd.name = "penUp" -> Stroke(context)
      [] cmd.name = "penDown" -> MoveTo(BeginPath(context), Pt(posX, posY))
      [] cmd.name = "move" ->
            IF ~drawing THEN MoveTo(context, Pt(posX + cmd.x, posY + cmd.y))
            ELSE LineTo(context, Pt(posX + cmd.x, posY + cmd.y))
      [] cmd.name = "color" -> context
      [] OTHER -> context

\* the context of a surface on which the interval callback has dispatched cmds
RECURSIVE RenderContext(_, _)
RenderContext(cmds, context) ==
    IF cmds = <<>> THEN context
    ELSE RenderContext(Tail(cmds),
                       dispatchCommand(Head(cmds), context, PassDrawing, PassPosX, PassPosY))

\* the segments visible on a surface whose pass has dispatched cmds and resolved
SurfaceSegments(cmds) ==
    LET context == RenderContext(cmds, InitialContext)
    IN IF PassDrawing THEN Stroke(context).strokes ELSE context.strokes

-----------------------------------------------------------------------------
(* Initial state: main() has added the root state *)

Init ==
    /\ executionStates = <<NewState(<<"1">>, Null)>>
    /\ currentStep = 0
    /\ running = FALSE
    /\ timeout = NoTimer
    /\ calls = <<>>
    /\ intervals = <<>>
    /\ painted = <<(<<>>)>>
    /\ graph = <<>>
    /\ mainCode = Absent
    /\ docText = DefaultCode
    /\ lastRun = "none"
    /\ deferred = NoList
    /\ nvIn = NoList
    /\ nvOut = NoList
    /\ lastCall = NoList
    /\ decorations = <<>>
    /\ debounce = NoList

-----------------------------------------------------------------------------
(* Actions *)

\* the user edits the document
Edit(t) ==
    /\ t # docText
    /\ docText' = t
    /\ UNCHANGED <<executionStates, currentStep, running, timeout, calls, intervals,
                   painted, graph, mainCode, lastRun, deferred, nvIn, nvOut, lastCall, decorations, debounce>>

DocumentChangeHandlerUnguarded(newCommands) ==
    /\ mainCode' = IF docText # "" THEN docText ELSE mainCode
    /\ timeout' = <<newCommands>>
    /\ UNCHANGED <<executionStates, currentStep, running, calls, intervals, painted,
                   graph, docText, lastRun, nvIn, nvOut, lastCall, decorations>>

DocumentChangeHandlerKeepFirst(newCommands) ==
    /\ mainCode' = IF docText # "" THEN docText ELSE mainCode
    /\ timeout' = IF running \/ timeout # NoTimer THEN timeout ELSE <<newCommands>>
    /\ UNCHANGED <<executionStates, currentStep, running, calls, intervals, painted,
                   graph, docText, lastRun, nvIn, nvOut, lastCall, decorations>>

\* client.onNotification('browser/DocumentChange'), up to setTimeout
DocumentChangeHandler(newCommands) ==
    /\ mainCode' = IF docText # "" THEN docText ELSE mainCode
    /\ timeout' = IF running THEN timeout ELSE <<newCommands>>
    /\ UNCHANGED <<executionStates, currentStep, running, calls, intervals, painted,
                   graph, docText, lastRun, nvIn, nvOut, lastCall, decorations>>

DocumentChange(newCommands) ==
    /\ DocumentChangeHandler(newCommands)
    /\ UNCHANGED <<deferred, debounce>>

\* the same handler, recording the notification it returns from at the running guard
DocumentChangeObserved(newCommands) ==
    /\ DocumentChangeHandler(newCommands)
    /\ deferred' = IF running THEN <<newCommands>> ELSE NoList
    /\ debounce' = IF running THEN debounce
                   ELSE <<[latest |-> newCommands, replaced |-> timeout]>>

\* setCurrentStep(step) on store states: the cursor, the cleared surfaces and the
\* passes; with no active state Promise.all resolves at once and the caller continues
SetCurrentStep(states, step, kind) ==
    LET passes == RenderPasses(states, ClampStep(states, step), Len(calls) + 1, 1) IN
    /\ currentStep' = ClampStep(states, step)
    /\ painted' = Cleared(states, painted)
    /\ intervals' = intervals \o passes
    /\ IF passes = <<>>
       THEN /\ calls' = calls
            /\ graph' = GraphOf(states)
            /\ running' = IF kind = "live" THEN FALSE ELSE running
       ELSE /\ calls' = Append(calls, [kind |-> kind, pending |-> Len(passes)])
            /\ graph' = graph
            /\ running' = IF kind = "live" THEN TRUE ELSE running

\* the setTimeout callback of the DocumentChange handler
TimeoutFires ==
    /\ timeout # NoTimer
    /\ timeout' = NoTimer
    /\ LET idx == LiveUpdateTarget(executionStates)
           newCommands == timeout[1]
       IN
       IF idx > 0
       THEN /\ executionStates' = ApplyLiveUpdate(executionStates, idx, newCommands)
            /\ SetCurrentStep(executionStates', Len(newCommands), "live")
            /\ lastRun' = "applied"
            /\ deferred' = IF deferred = timeout THEN NoList ELSE deferred
       ELSE /\ lastRun' = IF latestActiveIndex(executionStates) > 0 THEN "frozen" ELSE "noleaf"
            /\ running' = FALSE
            /\ UNCHANGED <<executionStates, currentStep, calls, intervals, painted, graph,
                           deferred>>
    /\ UNCHANGED <<docText, mainCode, nvIn, nvOut, lastCall, decorations, debounce>>

ShiftShared(states, k) == [states EXCEPT ![k].commands = Tail(@)]

\* the store after cmds.shift() in the pass on surface k: cmds is the copy
\* state.commands.slice(0, currentStep) made by setCurrentStep
Shift(states, k) == states

TickThrows ==
    /\ intervals # <<>>
    /\ LET pass == Head(intervals)
           call == calls[pass.call]
       IN IF pass.cmds # <<>> /\ Head(pass.cmds).name \notin {"penUp", "penDown", "move", "color"}
          THEN /\ painted' = [painted EXCEPT ![pass.k] = Append(@, Head(pass.cmds))]
               /\ intervals' = Tail(intervals)
               /\ UNCHANGED <<executionStates, calls, running, graph>>
          ELSE IF pass.cmds # <<>>
          THEN /\ executionStates' = Shift(executionStates, pass.k)
               /\ painted' = [painted EXCEPT ![pass.k] = Append(@, Head(pass.cmds))]
               /\ intervals' = Append(Tail(intervals), [pass EXCEPT !.cmds = Tail(pass.cmds)])
               /\ UNCHANGED <<calls, running, graph>>
          ELSE IF call.pending > 1
          THEN /\ intervals' = Tail(intervals)
               /\ calls' = [calls EXCEPT ![pass.call].pending = @ - 1]
               /\ UNCHANGED <<executionStates, painted, running, graph>>
          ELSE /\ intervals' = Renumber(Tail(intervals), pass.call)
               /\ calls' = RemoveAt(calls, pass.call)
               /\ graph' = GraphOf(executionStates)
               /\ running' = IF call.kind = "live" THEN FALSE ELSE running
               /\ UNCHANGED <<executionStates, painted>>
    /\ UNCHANGED <<currentStep, timeout, docText, mainCode, lastRun,
                   deferred, nvIn, nvOut, lastCall, decorations, debounce>>

TickStuck ==
    /\ intervals # <<>>
    /\ Head(intervals).cmds # <<>>
    /\ LET pass == Head(intervals) IN
       /\ painted' = [painted EXCEPT ![pass.k] = Append(@, Head(pass.cmds))]
       /\ intervals' = Append(Tail(intervals), [pass EXCEPT !.cmds = Tail(pass.cmds)])
    /\ UNCHANGED <<calls, running, graph, executionStates, currentStep, timeout, docText,
                   mainCode, lastRun, deferred, nvIn, nvOut, lastCall, decorations, debounce>>

\* one tick: the callback of the setInterval timer that is due first. Timers of equal
\* delay fire in the order they were set, and a fired interval is due again after the others
Tick ==
    /\ intervals # <<>>
    /\ LET pass == Head(intervals)
           call == calls[pass.call]
       IN IF pass.cmds # <<>>
          THEN /\ executionStates' = Shift(executionStates, pass.k)
               /\ painted' = [painted EXCEPT ![pass.k] = Append(@, Head(pass.cmds))]
               /\ intervals' = Append(Tail(intervals), [pass EXCEPT !.cmds = Tail(pass.cmds)])
               /\ UNCHANGED <<calls, running, graph>>
          ELSE IF call.pending > 1
          THEN /\ intervals' = Tail(intervals)
               /\ calls' = [calls EXCEPT ![pass.call].pending = @ - 1]
               /\ UNCHANGED <<executionStates, painted, running, graph>>
          ELSE /\ intervals' = Renumber(Tail(intervals), pass.call)
               /\ calls' = RemoveAt(calls, pass.call)
               /\ graph' = GraphOf(executionStates)
               /\ running' = IF call.kind = "live" THEN FALSE ELSE running
               /\ UNCHANGED <<executionStates, painted>>
    /\ UNCHANGED <<currentStep, timeout, docText, mainCode, lastRun,
                   deferred, nvIn, nvOut, lastCall, decorations, debounce>>

UiUnchanged == UNCHANGED <<executionStates, timeout, docText, mainCode, lastRun,
                           deferred, nvIn, nvOut, lastCall, decorations, debounce>>

\* stepBackButton click
StepBack ==
    /\ UiCallsInFlight < MaxUiCalls
    /\ Max(0, currentStep - 1) # currentStep
    /\ SetCurrentStep(executionStates, Max(0, currentStep - 1), "ui")
    /\ UiUnchanged

\* stepForwardButton click
StepForward ==
    /\ UiCallsInFlight < MaxUiCalls
    /\ Min(Len(executionStates[1].commands), currentStep + 1) # currentStep
    /\ SetCurrentStep(executionStates,
                      Min(Len(executionStates[1].commands), currentStep + 1), "ui")
    /\ UiUnchanged

\* slider input
SliderInput(newStep) ==
    /\ UiCallsInFlight < MaxUiCalls
    /\ SetCurrentStep(executionStates, newStep, "ui")
    /\ UiUnchanged

\* click on the command node at index (from 0) of row k of the timeline
CommandClick(k, index) ==
    /\ UiCallsInFlight < MaxUiCalls
    /\ k \in 1..Len(graph)
    /\ index >= 0
    /\ index < Len(graph[k].commands)
    /\ LET cmd == graph[k].commands[index + 1] IN
       decorations' = IF HasLocation(cmd)
                      THEN createDecorationFromLocation(decorations, cmd.location)
                      ELSE decorations
    /\ SetCurrentStep(executionStates, index + 1, "ui")
    /\ UNCHANGED <<executionStates, timeout, docText, mainCode, lastRun, deferred,
                   nvIn, nvOut, lastCall, debounce>>

\* freezeButton click
Freeze(bound) ==
    /\ Len(executionStates) < bound
    /\ LET n == Len(executionStates)
           lastState == executionStates[n]
       IN /\ ~lastState.isFrozen
          /\ LET frozen == [executionStates EXCEPT ![n].isFrozen = TRUE, ![n].code = docText]
                 newVersion == getNextVersionNumber(frozen, lastState.version)
             IN /\ executionStates' = Append(frozen, NewState(newVersion, lastState.version))
                /\ painted' = Append(painted, <<>>)
                /\ graph' = GraphOf(executionStates')
    /\ UNCHANGED <<currentStep, running, timeout, calls, intervals, docText, mainCode,
                   lastRun, deferred, nvIn, nvOut, lastCall, decorations, debounce>>

FreezeTargetAlways(states) == Len(states)

\* the state the freeze handler freezes, 0 when lastState is frozen already
FreezeTarget(states) ==
    IF states[Len(states)].isFrozen THEN 0 ELSE Len(states)

\* freezeButton click with the last state of the store frozen: lastCall keeps the click
FreezeFrozen ==
    /\ executionStates[Len(executionStates)].isFrozen
    /\ LET n == FreezeTarget(executionStates) IN
       IF n = 0
       THEN UNCHANGED <<executionStates, painted, graph>>
       ELSE LET lastState == executionStates[n]
                frozen == [executionStates EXCEPT ![n].isFrozen = TRUE, ![n].code = docText]
                newVersion == getNextVersionNumber(frozen, lastState.version)
            IN /\ executionStates' = Append(frozen, NewState(newVersion, lastState.version))
               /\ painted' = Append(painted, <<>>)
               /\ graph' = GraphOf(executionStates')
    /\ lastCall' = <<[op |-> "freeze", index |-> Len(executionStates) - 1, result |-> "none"]>>
    /\ UNCHANGED <<currentStep, running, timeout, calls, intervals, docText, mainCode,
                   lastRun, deferred, nvIn, nvOut, decorations, debounce>>

\* a call restoreExecutionState(stateIndex), stateIndex counted from 0
RestoreCall(stateIndex) ==
    /\ executionStates' = restoreExecutionState(executionStates, stateIndex + 1)
    /\ lastCall' = <<[op |-> "restore", index |-> stateIndex,
                      result |-> restoreResult(executionStates, stateIndex)]>>
    /\ UNCHANGED <<currentStep, running, timeout, calls, intervals, painted, graph, docText,
                   mainCode, lastRun, deferred, nvIn, nvOut, decorations, debounce>>

\* changeButton.onclick of row k
ChangeClick(k) ==
    /\ k \in 1..Len(graph)
    /\ graph[k].change
    /\ executionStates' = restoreExecutionState(executionStates, k)
    /\ graph' = GraphOf(executionStates')
    /\ UNCHANGED <<currentStep, running, timeout, calls, intervals, painted, docText,
                   mainCode, lastRun, deferred, nvIn, nvOut, lastCall, decorations, debounce>>

Next ==
    \/ \E t \in Texts : Edit(t)
    \/ \E l \in CommandLists : DocumentChange(l)
    \/ TimeoutFires
    \/ Tick
    \/ StepBack
    \/ StepForward
    \/ \E n \in StepInputs : SliderInput(n)
    \/ \E k \in 1..MaxStates, i \in StepInputs : CommandClick(k, i)
    \/ Freeze(MaxStates)
    \/ \E k \in 1..MaxStates : ChangeClick(k)

\* the modular app: every control in use
Spec == Init /\ [][Next]_vars

StoreNext ==
    \/ \E l \in StoreCommandLists : DocumentChange(l)
    \/ TimeoutFires
    \/ Tick
    \/ Freeze(MaxStoreStates)
    \/ \E k \in 1..MaxStoreStates : ChangeClick(k)

\* the modular app under freeze, restore and live updates, the scrub controls unused
\* and the document left as it was loaded
StoreSpec == Init /\ [][StoreNext]_vars

-----------------------------------------------------------------------------
(* getNextVersionNumber on stores built by addExecutionState: the root, the   *)
(* children "1.k" of the root for a set of numbers k, in increasing order,    *)
(* and one child of "1.1" with a number larger than any of them               *)

ChildOf(parentVersion, n) == NewState(parentVersion \o <<".">> \o NumToStr(n), parentVersion)

RECURSIVE ChildrenFrom(_, _, _)
ChildrenFrom(parentVersion, kids, n) ==
    IF n > MaxChild THEN <<>>
    ELSE (IF n \in kids THEN <<ChildOf(parentVersion, n)>> ELSE <<>>)
         \o ChildrenFrom(parentVersion, kids, n + 1)

ProbeStore(kids) ==
    <<NewState(<<"1">>, Null)>> \o ChildrenFrom(<<"1">>, kids, 1)
    \o (IF 1 \in kids THEN <<ChildOf(<<"1", ".", "1">>, MaxChild + 2)>> ELSE <<>>)

ProbeParents == {Null, <<"1">>, <<"1", ".", "1">>, <<"1", ".", "2">>}

VersionInit ==
    /\ \E kids \in SUBSET (1..MaxChild) : executionStates = ProbeStore(kids)
    /\ currentStep = 0
    /\ running = FALSE
    /\ timeout = NoTimer
    /\ calls = <<>>
    /\ intervals = <<>>
    /\ painted = [k \in 1..Len(executionStates) |-> <<>>]
    /\ graph = <<>>
    /\ mainCode = Absent
    /\ docText = DefaultCode
    /\ lastRun = "none"
    /\ deferred = NoList
    /\ nvIn = NoList
    /\ nvOut = NoList
    /\ lastCall = NoList
    /\ decorations = <<>>
    /\ debounce = NoList

\* a call getNextVersionNumber(parentVersion)
Probe(parentVersion) ==
    /\ nvIn' = <<parentVersion>>
    /\ nvOut' = <<getNextVersionNumber(executionStates, parentVersion)>>
    /\ UNCHANGED <<executionStates, currentStep, running, timeout, calls, intervals, painted,
                   graph, docText, mainCode, lastRun, deferred, lastCall, decorations, debounce>>

VersionNext == \E parentVersion \in ProbeParents : Probe(parentVersion)

VersionSpec == VersionInit /\ [][VersionNext]_vars

-----------------------------------------------------------------------------
(* The handlers on a store whose single state addExecutionState received in   *)
(* any condition: frozen or not, active or not. main() itself only ever adds  *)
(* unfrozen active states, and the freeze handler appends a child to every    *)
(* state it freezes.                                                          *)

LeafInit ==
    /\ \E frozen \in BOOLEAN, active \in BOOLEAN, commands \in CommandLists :
          executionStates = <<[NewState(<<"1">>, Null) EXCEPT !.isFrozen = frozen,
                                                             !.isActive = active,
                                                             !.commands = commands]>>
    /\ currentStep = 0
    /\ running = FALSE
    /\ timeout = NoTimer
    /\ calls = <<>>
    /\ intervals = <<>>
    /\ painted = <<(<<>>)>>
    /\ graph = GraphOf(executionStates)
    /\ mainCode = Absent
    /\ docText = DefaultCode
    /\ lastRun = "none"
    /\ deferred = NoList
    /\ nvIn = NoList
    /\ nvOut = NoList
    /\ lastCall = NoList
    /\ decorations = <<>>
    /\ debounce = NoList

LeafNext ==
    \/ \E t \in Texts : Edit(t)
    \/ \E l \in CommandLists : DocumentChange(l)
    \/ TimeoutFires
    \/ Tick
    \/ Freeze(MaxStates)
    \/ FreezeFrozen
    \/ \E k \in 1..MaxStates : ChangeClick(k)
    \/ \E stateIndex \in RestoreInputs : RestoreCall(stateIndex)

LeafSpec == LeafInit /\ [][LeafNext]_vars

-----------------------------------------------------------------------------
(* The DocumentChange handler with the timers of the browser: a pending       *)
(* setTimeout callback runs, and a setInterval timer keeps firing             *)

FairNext ==
    \/ \E t \in Texts : Edit(t)
    \/ \E l \in CommandLists : DocumentChangeObserved(l)
    \/ TimeoutFires
    \/ Tick
    \/ Freeze(MaxStates)

FairSpec == Init /\ [][FairNext]_vars /\ WF_vars(TimeoutFires) /\ WF_vars(Tick)

\* the same timers with the slider in use: the passes of a live update and of the
\* slider's setCurrentStep calls take their ticks in turn
ResolveNext ==
    \/ \E l \in CommandLists : DocumentChange(l)
    \/ TimeoutFires
    \/ Tick
    \/ \E n \in StepInputs : SliderInput(n)
    \/ Freeze(MaxStates)

ResolveSpec == Init /\ [][ResolveNext]_vars /\ WF_vars(TimeoutFires) /\ WF_vars(Tick)

\* the lists of a compiler that may emit a command dispatchCommand has no case for
GuardCommandLists == {<<>>, <<Move>>, <<Jump, Move>>}

\* the running guard with the timers of the browser, on a store whose first state may
\* be frozen or inactive, so that the timeout callback meets every leaf it tests for
GuardNext ==
    \/ \E l \in GuardCommandLists : DocumentChange(l)
    \/ TimeoutFires
    \/ Tick
    \/ Freeze(MaxStates)

GuardSpec == LeafInit /\ [][GuardNext]_vars /\ WF_vars(TimeoutFires) /\ WF_vars(Tick)

-----------------------------------------------------------------------------
(* setCurrentStep called again and again, each call after the one before has  *)
(* resolved, on stores of one state or of a frozen state and its child        *)

IdemStores ==
    {<<[NewState(<<"1">>, Null) EXCEPT !.isActive = a, !.commands = c]>> :
        a \in BOOLEAN, c \in StoreCommandLists}
    \cup
    {<<[NewState(<<"1">>, Null) EXCEPT !.isActive = a1, !.commands = c1, !.isFrozen = TRUE],
       [NewState(<<"1", ".", "1">>, <<"1">>) EXCEPT !.isActive = a2, !.commands = c2]>> :
        a1 \in BOOLEAN, a2 \in BOOLEAN, c1 \in StoreCommandLists, c2 \in StoreCommandLists}

IdemInit ==
    /\ executionStates \in IdemStores
    /\ currentStep = 0
    /\ running = FALSE
    /\ timeout = NoTimer
    /\ calls = <<>>
    /\ intervals = <<>>
    /\ painted = [k \in 1..Len(executionStates) |-> <<>>]
    /\ graph = GraphOf(executionStates)
    /\ mainCode = Absent
    /\ docText = DefaultCode
    /\ lastRun = "none"
    /\ deferred = NoList
    /\ nvIn = NoList
    /\ nvOut = NoList
    /\ lastCall = NoList
    /\ decorations = <<>>
    /\ debounce = NoList

\* await setCurrentStep(step), begun when no call is in flight; lastCall keeps the
\* cursor and the surfaces the call found, and whether the call before had the same step
SetCurrentStepCall(step) ==
    /\ intervals = <<>>
    /\ SetCurrentStep(executionStates, step, "ui")
    /\ lastCall' = <<[op |-> "setCurrentStep", step |-> step,
                      again |-> (lastCall # NoList /\ lastCall[1].step = step),
                      cursor |-> currentStep, painted |-> painted]>>
    /\ UNCHANGED <<executionStates, timeout, docText, mainCode, lastRun, deferred,
                   nvIn, nvOut, decorations, debounce>>

IdemNext ==
    \/ \E n \in StepInputs : SetCurrentStepCall(n)
    \/ Tick

IdemSpec == IdemInit /\ [][IdemNext]_vars

-----------------------------------------------------------------------------
(* The root state replayed: live updates with drawing commands, and the slider *)

TurtleNext ==
    \/ \E l \in TurtleCommandLists : DocumentChange(l)
    \/ TimeoutFires
    \/ Tick
    \/ \E n \in 0..MaxTurtleStep : SliderInput(n)

TurtleSpec == Init /\ [][TurtleNext]_vars

-----------------------------------------------------------------------------
(* Commands that carry the source span of the statement they come from, the   *)
(* clicks on their nodes in the timeline, and the slider                      *)

PenDownAt == [name |-> "penDown", x |-> 0, y |-> 0, location |-> [offset |-> 0, end |-> 5]]
MoveAt == [name |-> "move", x |-> 1, y |-> 0, location |-> [offset |-> 6, end |-> 16]]

DecorCommandLists == {<<>>, <<MoveAt>>, <<PenDownAt, MoveAt>>, <<PenDownAt, Move>>}

\* a click on a command node, while the editor holds fewer than MaxDecorations decorations
DecorClick(k, index) ==
    /\ Len(decorations) < MaxDecorations
    /\ CommandClick(k, index)

DecorNext ==
    \/ \E l \in DecorCommandLists : DocumentChange(l)
    \/ TimeoutFires
    \/ Tick
    \/ \E n \in StepInputs : SliderInput(n)
    \/ \E i \in StepInputs : DecorClick(1, i)

DecorSpec == Init /\ [][DecorNext]_vars

-----------------------------------------------------------------------------
(* The legacy single-file main: the slider and the DocumentChange timer both  *)
(* set the shared running flag around their render                            *)

\* the legacy createDecorationFromLocation: the previous decoration is removed first
legacyCreateDecoration(decos, location) == <<location>>

\* await Promise.all(executionStates.map(updateMiniLogoCanvas)) between running = true
\* and running = false; with no active state it resolves at once
LegacyRender(states, step, kind) ==
    LET passes == RenderPasses(states, step, Len(calls) + 1, 1) IN
    /\ painted' = Cleared(states, painted)
    /\ intervals' = intervals \o passes
    /\ IF passes = <<>>
       THEN /\ calls' = calls
            /\ graph' = GraphOf(states)
            /\ running' = FALSE
       ELSE /\ calls' = Append(calls, [kind |-> kind, pending |-> Len(passes)])
            /\ graph' = graph
            /\ running' = TRUE

\* client.onNotification('browser/DocumentChange') of the legacy main, up to setTimeout
LegacyDocumentChange(newCommands) == DocumentChange(newCommands)

\* the setTimeout callback of the legacy DocumentChange handler
LegacyTimeoutFires ==
    /\ timeout # NoTimer
    /\ timeout' = NoTimer
    /\ Len(calls) < MaxLegacyCalls
    /\ LET idx == LiveUpdateTarget(executionStates)
           newCommands == timeout[1]
       IN
       IF idx > 0
       THEN /\ executionStates' = ApplyLiveUpdate(executionStates, idx, newCommands)
            /\ currentStep' = Len(newCommands)
            /\ LegacyRender(executionStates', Len(newCommands), "live")
            /\ lastRun' = "applied"
       ELSE /\ lastRun' = IF latestActiveIndex(executionStates) > 0 THEN "frozen" ELSE "noleaf"
            /\ running' = FALSE
            /\ UNCHANGED <<executionStates, currentStep, calls, intervals, painted, graph>>
    /\ UNCHANGED <<docText, mainCode, deferred, nvIn, nvOut, lastCall, decorations, debounce>>

\* slider input of the legacy main
LegacySliderInput(newStep) ==
    /\ running \/ Len(calls) < MaxLegacyCalls
    /\ currentStep' = newStep
    /\ IF ~running
       THEN LegacyRender(executionStates, newStep, "scrub")
       ELSE UNCHANGED <<painted, intervals, calls, graph, running>>
    /\ UNCHANGED <<executionStates, timeout, docText, mainCode, lastRun, deferred,
                   nvIn, nvOut, lastCall, decorations, debounce>>

\* one tick of the legacy updateMiniLogoCanvas: the last command of the prefix is
\* highlighted, and the handler whose Promise.all resolves sets running = false
LegacyTick ==
    /\ intervals # <<>>
    /\ LET pass == Head(intervals)
           call == calls[pass.call]
       IN IF pass.cmds # <<>>
          THEN /\ decorations' =
                    IF /\ Len(pass.cmds) = 1
                       /\ executionStates[pass.k].isActive
                       /\ HasLocation(Head(pass.cmds))
                    THEN legacyCreateDecoration(decorations, Head(pass.cmds).location)
                    ELSE decorations
               /\ painted' = [painted EXCEPT ![pass.k] = Append(@, Head(pass.cmds))]
               /\ intervals' = Append(Tail(intervals), [pass EXCEPT !.cmds = Tail(pass.cmds)])
               /\ UNCHANGED <<calls, running, graph>>
          ELSE IF call.pending > 1
          THEN /\ intervals' = Tail(intervals)
               /\ calls' = [calls EXCEPT ![pass.call].pending = @ - 1]
               /\ UNCHANGED <<painted, running, graph, decorations>>
          ELSE /\ intervals' = Renumber(Tail(intervals), pass.call)
               /\ calls' = RemoveAt(calls, pass.call)
               /\ graph' = GraphOf(executionStates)
               /\ running' = FALSE
               /\ UNCHANGED <<painted, decorations>>
    /\ UNCHANGED <<executionStates, currentStep, timeout, docText, mainCode, lastRun,
                   deferred, nvIn, nvOut, lastCall, debounce>>

LegacyNext ==
    \/ \E l \in DecorCommandLists : LegacyDocumentChange(l)
    \/ LegacyTimeoutFires
    \/ LegacyTick
    \/ \E n \in 0..2 : LegacySliderInput(n)

LegacySpec == Init /\ [][LegacyNext]_vars

-----------------------------------------------------------------------------
(* The language server: it receives the document and answers with a           *)
(* DocumentChange notification carrying the commands compiled from it         *)

\* the command list of a document: none for the empty one, one for the default program
Compile(text) == IF text = "" THEN <<>> ELSE <<Move>>

\* the notification for the text the document holds
ServerNotifies == DocumentChange(Compile(docText))

RevisionNext ==
    \/ \E t \in Texts : Edit(t)
    \/ ServerNotifies
    \/ TimeoutFires
    \/ Tick
    \/ Freeze(MaxStates)
    \/ \E n \in StepInputs : SliderInput(n)

RevisionSpec == Init /\ [][RevisionNext]_vars

-----------------------------------------------------------------------------
(* The visibility checkbox of a timeline row                                  *)

setVisibleAndActive(states, k, checked) ==
    [states EXCEPT ![k].isVisible = checked, ![k].isActive = checked]

\* state.isVisible = checkbox.checked
setVisible(states, k, checked) == [states EXCEPT ![k].isVisible = checked]

\* the change listener of the checkbox of row k, which the click has just toggled
ToggleVisibility(k) ==
    /\ k \in 1..Len(graph)
    /\ executionStates' = setVisible(executionStates, k, ~executionStates[k].isVisible)
    /\ UNCHANGED <<currentStep, running, timeout, calls, intervals, painted, graph, docText,
                   mainCode, lastRun, deferred, nvIn, nvOut, lastCall, decorations, debounce>>

VisibilityNext ==
    \/ \E l \in CommandLists : DocumentChange(l)
    \/ TimeoutFires
    \/ Tick
    \/ Freeze(MaxStates)
    \/ \E k \in 1..MaxStates : ChangeClick(k)
    \/ \E k \in 1..MaxStates : ToggleVisibility(k)

\* the modular app with the visibility checkboxes in use
VisibilitySpec == Init /\ [][VisibilityNext]_vars

-----------------------------------------------------------------------------
(* C1: after restoreExecutionState succeeds on a frozen state v, the active   *)
(* states are exactly the ancestors of v and v itself.                        *)

IndexOfVersion(states, version) ==
    CHOOSE k \in 1..Len(states) : states[k].version = version

\* the indexes of state k and of the states its parentVersion chain leads through
RECURSIVE AncestorsOrSelf(_, _)
AncestorsOrSelf(states, k) ==
    IF states[k].parentVersion = Null THEN {k}
    ELSE {k} \cup AncestorsOrSelf(states, IndexOfVersion(states, states[k].parentVersion))

ActiveSet(states) == {k \in 1..Len(states) : states[k].isActive}

C1_RestoreActivatesAncestors ==
    [][\A k \in 1..MaxStoreStates :
          ChangeClick(k) =>
              ActiveSet(executionStates') = AncestorsOrSelf(executionStates, k)]_vars

-----------------------------------------------------------------------------
(* C2: after any sequence of freeze, restore and live-update operations from  *)
(* the single root "1", no two states of the store have the same version, and *)
(* every non-root version is its parentVersion, ".", and a positive integer.  *)

IsDigit(c) == \E d \in 1..10 : Digits[d] = c

\* decimal notation of a positive integer: digits only, no leading zero
IsPositiveDecimal(s) ==
    /\ Len(s) >= 1
    /\ \A i \in 1..Len(s) : IsDigit(s[i])
    /\ s[1] # "0"

IsChildVersion(version, parentVersion) ==
    LET n == Len(parentVersion) IN
    /\ Len(version) >= n + 2
    /\ SubSeq(version, 1, n) = parentVersion
    /\ version[n + 1] = "."
    /\ IsPositiveDecimal(SubSeq(version, n + 2, Len(version)))

C2_VersionsUniqueAndDotted ==
    /\ \A i, j \in 1..Len(executionStates) :
           i # j => executionStates[i].version # executionStates[j].version
    /\ \A k \in 1..Len(executionStates) :
           IF executionStates[k].parentVersion = Null
           THEN executionStates[k].version = <<"1">>
           ELSE IsChildVersion(executionStates[k].version, executionStates[k].parentVersion)

\* two freezes, a restore that deactivated the root, and a live update since
C2_Witness ==
    /\ Len(executionStates) = 3
    /\ ~executionStates[1].isActive
    /\ executionStates[3].commands # <<>>

-----------------------------------------------------------------------------
(* C3: getNextVersionNumber(parent) returns "1" when parent is null,          *)
(* parent + ".1" when no stored state has parentVersion = parent, and         *)
(* otherwise parent + "." + (m + 1), m the largest last component among the   *)
(* stored states whose parentVersion is parent: never a gap that is free.     *)

\* the numbers n for which the store holds a child parent.n of parent
ChildNumbers(states, parentVersion) ==
    {n \in 0..(MaxChild + 2) :
        \E k \in 1..Len(states) :
            /\ states[k].parentVersion = parentVersion
            /\ states[k].version = parentVersion \o <<".">> \o NumToStr(n)}

ExpectedNextVersion(states, parentVersion) ==
    LET nums == ChildNumbers(states, parentVersion) IN
    IF parentVersion = Null THEN <<"1">>
    ELSE IF nums = {} THEN parentVersion \o <<".", "1">>
    ELSE LET m == CHOOSE n \in nums : \A j \in nums : j <= n
         IN parentVersion \o <<".">> \o NumToStr(m + 1)

C3_NextVersionIsMaxPlusOne ==
    nvOut # NoList => nvOut[1] = ExpectedNextVersion(executionStates, nvIn[1])

\* children 1.1, 1.2 and 1.4 of "1": the version returned is 1.5
C3_Witness ==
    /\ ChildNumbers(executionStates, <<"1">>) = {1, 2, 4}
    /\ nvIn = <<(<<"1">>)>>
    /\ nvOut = <<(<<"1", ".", "5">>)>>

-----------------------------------------------------------------------------
(* C4: freezing is one-way and makes a state immutable: a frozen state stays  *)
(* frozen, and every live update, scrub, render tick, freeze and restore      *)
(* leaves its commands and its code as they were.                             *)

C4_FrozenIsImmutable ==
    [][\A k \in 1..Len(executionStates) :
          executionStates[k].isFrozen =>
              /\ k <= Len(executionStates')
              /\ executionStates'[k].isFrozen
              /\ executionStates'[k].commands = executionStates[k].commands
              /\ executionStates'[k].code = executionStates[k].code]_vars

\* the root is frozen; since then a live update has given its child other commands
\* and the document has been edited
C4_Witness ==
    /\ Len(executionStates) = 2
    /\ executionStates[1].isFrozen
    /\ executionStates[2].commands # executionStates[1].commands
    /\ docText # executionStates[1].code
    /\ lastRun = "applied"

-----------------------------------------------------------------------------
(* C5: when a live-update run finds the state it selected, the last active    *)
(* state without children, frozen, the update is dropped: no state's commands *)
(* change, the scrub cursor is unchanged and no render is started.            *)

CommandsOf(states) == [k \in 1..Len(states) |-> states[k].commands]

\* the step in which the pending debounce timer runs its callback
TimeoutRuns == timeout # NoTimer /\ timeout' = NoTimer

SelectedIsFrozen(states) ==
    LET idx == latestActiveIndex(states) IN idx > 0 /\ states[idx].isFrozen

C5_FrozenLeafDropsUpdate ==
    [][(TimeoutRuns /\ SelectedIsFrozen(executionStates)) =>
          /\ CommandsOf(executionStates') = CommandsOf(executionStates)
          /\ currentStep' = currentStep
          /\ calls' = calls
          /\ intervals' = intervals
          /\ painted' = painted]_vars

\* a run has just found its selected state frozen
C5_Witness ==
    /\ lastRun = "frozen"
    /\ SelectedIsFrozen(executionStates)
    /\ timeout = NoTimer

-----------------------------------------------------------------------------
(* C6: a live-update run replaces the commands of at most one state, and that *)
(* state is then active, not frozen and without an active child; the commands *)
(* of every other state are left unchanged.                                   *)

HasActiveChild(states, k) ==
    \E j \in 1..Len(states) :
        states[j].parentVersion = states[k].version /\ states[j].isActive

\* the states a step gives other commands
Replaced ==
    {k \in 1..Len(executionStates) :
        k > Len(executionStates') \/ executionStates'[k].commands # executionStates[k].commands}

C6_LiveUpdateReplacesOneLeaf ==
    [][TimeoutRuns =>
          /\ Cardinality(Replaced) <= 1
          /\ \A k \in Replaced :
                 /\ executionStates[k].isActive
                 /\ ~executionStates[k].isFrozen
                 /\ ~HasActiveChild(executionStates, k)]_vars

\* three states that each received commands of their own while they were the leaf
C6_Witness ==
    /\ Len(executionStates) = 3
    /\ executionStates[1].commands = <<>>
    /\ executionStates[2].commands = <<Move>>
    /\ executionStates[3].commands = <<PenDown, Move>>
    /\ lastRun = "applied"

-----------------------------------------------------------------------------
(* C7: in every state reachable through the freeze handler,                   *)
(* restoreExecutionState and live updates, at most one state is active and    *)
(* has no active child.                                                       *)

ActiveLeaves(states) ==
    {k \in 1..Len(states) : states[k].isActive /\ ~HasActiveChild(states, k)}

C7_AtMostOneActiveLeaf == Cardinality(ActiveLeaves(executionStates)) <= 1

\* a restore of the middle state of three has deactivated the root
C7_Witness ==
    /\ Len(executionStates) = 3
    /\ ~executionStates[1].isActive
    /\ executionStates[2].isActive
    /\ ActiveLeaves(executionStates) = {3}

-----------------------------------------------------------------------------
(* C8: a step-back, step-forward, slider or command-click request starts a    *)
(* render pass only when none is in flight: never are two render passes, two  *)
(* setInterval loops of updateMiniLogoCanvas, in flight on one state's        *)
(* surface.                                                                   *)

C8_OnePassPerSurface ==
    \A i, j \in 1..Len(intervals) : i # j => intervals[i].k # intervals[j].k

-----------------------------------------------------------------------------
(* C9: a DocumentChange notification that arrives while a live-update run is  *)
(* in flight, and that no later notification follows, is deferred and not     *)
(* lost: once the run has finished its commands are eventually those of the   *)
(* eligible leaf.                                                             *)

DeferredApplied ==
    LET idx == latestActiveIndex(executionStates) IN
    /\ idx > 0
    /\ executionStates[idx].commands = deferred[1]
    /\ ~running

C9_DeferredEventuallyApplied ==
    (deferred # NoList) ~> (deferred = NoList \/ DeferredApplied)

-----------------------------------------------------------------------------
(* C10: setCurrentStep(n) stores min(max(n, 0), M) as the scrub cursor, M the *)
(* largest command count over all the states of the store.                    *)

ClampStepMaxAll(states, step) ==
    LET counts == [k \in 1..Len(states) |-> Len(states[k].commands)]
    IN Min(Max(step, 0), MaxOver(counts, 0))

C10_CursorClampedToLargestCount ==
    [][/\ \A n \in StepInputs :
             SliderInput(n) => currentStep' = ClampStepMaxAll(executionStates, n)
       /\ \A k \in 1..MaxStates, i \in StepInputs :
             CommandClick(k, i) => currentStep' = ClampStepMaxAll(executionStates, i + 1)]_vars

-----------------------------------------------------------------------------
(* C11: setCurrentStep is idempotent: setCurrentStep(n) run to completion and *)
(* then setCurrentStep(n) run to completion again leaves the cursor and the   *)
(* commands painted on every surface as the first call left them.             *)

C11_SetCurrentStepIdempotent ==
    (lastCall # NoList /\ lastCall[1].again /\ intervals = <<>>) =>
        /\ currentStep = lastCall[1].cursor
        /\ painted = lastCall[1].painted

\* the second of two calls with step 2 has resolved, with commands on a surface
C11_Witness ==
    /\ lastCall # NoList
    /\ lastCall[1].again
    /\ lastCall[1].step = 2
    /\ intervals = <<>>
    /\ \E k \in 1..Len(painted) : Len(painted[k]) = 2

-----------------------------------------------------------------------------
(* C12: a freeze request whose target state is frozen already adds no state   *)
(* to the store and leaves that state's code and commands unchanged.          *)

C12_FreezeOfFrozenIsNoOp ==
    [][FreezeFrozen =>
          /\ Len(executionStates') = Len(executionStates)
          /\ \A k \in 1..Len(executionStates) :
                 /\ executionStates'[k].code = executionStates[k].code
                 /\ executionStates'[k].commands = executionStates[k].commands
                 /\ executionStates'[k].isFrozen = executionStates[k].isFrozen]_vars

\* the freeze button has been clicked on a store whose last state is frozen
C12_Witness ==
    /\ lastCall # NoList
    /\ lastCall[1].op = "freeze"
    /\ executionStates[Len(executionStates)].isFrozen
    /\ docText # executionStates[Len(executionStates)].code

-----------------------------------------------------------------------------
(* C13: a successful freeze demotes exactly the frozen state and activates    *)
(* only the new child: after freezing state s, s.isActive is false, the new   *)
(* child is active with empty commands, and the isActive flag of every other  *)
(* state is unchanged.                                                        *)

\* the step is a freeze that succeeded: the store has gained a state
FreezeSucceeds == Len(executionStates') = Len(executionStates) + 1

ChildIsFresh(states, n) ==
    /\ states[n + 1].isActive
    /\ ~states[n + 1].isFrozen
    /\ states[n + 1].commands = <<>>
    /\ states[n + 1].parentVersion = states[n].version

C13_FreezeDemotesFrozen ==
    [][FreezeSucceeds =>
          LET n == Len(executionStates) IN
          /\ executionStates'[n].isFrozen
          /\ ~executionStates'[n].isActive
          /\ ChildIsFresh(executionStates', n)
          /\ \A k \in 1..(n - 1) :
                 executionStates'[k].isActive = executionStates[k].isActive]_vars

(* C13, as the code has it: a successful freeze changes no isActive flag: the *)
(* frozen state s keeps the flag it had, as every other state does, and the   *)
(* new child is active, unfrozen, with empty commands.                        *)

C13_FreezeKeepsActiveFlags ==
    [][FreezeSucceeds =>
          LET n == Len(executionStates) IN
          /\ executionStates'[n].isFrozen
          /\ ChildIsFresh(executionStates', n)
          /\ \A k \in 1..n :
                 executionStates'[k].isActive = executionStates[k].isActive]_vars

\* the root was frozen with commands of its own while active, and is active still
C13_Witness ==
    /\ Len(executionStates) = 2
    /\ executionStates[1].isFrozen
    /\ executionStates[1].isActive
    /\ executionStates[1].commands # <<>>
    /\ ChildIsFresh(executionStates, 1)

-----------------------------------------------------------------------------
(* C14: rendering a command prefix follows the turtle model: the pen starts   *)
(* at the origin and up, each Move adds its delta to the accumulated          *)
(* position, and a Move with the pen down draws a segment from the position   *)
(* before to the new one: the first 3 commands of [Move(100,0), PenDown,      *)
(* Move(0,100), PenUp] give exactly one segment, from (100,0) to (100,100).   *)

TurtleStart == [pos |-> Pt(0, 0), down |-> FALSE, segments |-> {}]

TurtleStep(turtle, cmd) ==
    CASE cmd.name = "penUp" -> [turtle EXCEPT !.down = FALSE]
      [] cmd.name = "penDown" -> [turtle EXCEPT !.down = TRUE]
      [] cmd.name = "move" ->
            LET to == Pt(turtle.pos.x + cmd.x, turtle.pos.y + cmd.y)
            IN [turtle EXCEPT !.pos = to,
                              !.segments = IF turtle.down THEN @ \cup {<<turtle.pos, to>>} ELSE @]
      [] OTHER -> turtle

RECURSIVE TurtleRun(_, _)
TurtleRun(cmds, turtle) ==
    IF cmds = <<>> THEN turtle ELSE TurtleRun(Tail(cmds), TurtleStep(turtle, Head(cmds)))

TurtleSegments(cmds) == TurtleRun(cmds, TurtleStart).segments

PassInFlightOn(k) == \E i \in 1..Len(intervals) : intervals[i].k = k

C14_RenderFollowsTurtleModel ==
    \A k \in 1..Len(executionStates) :
        ~PassInFlightOn(k) => SurfaceSegments(painted[k]) = TurtleSegments(painted[k])

-----------------------------------------------------------------------------
(* C15: an unrecognized command tag is fatal to its render pass: once         *)
(* updateMiniLogoCanvas has met a command whose name is none of penUp,        *)
(* penDown, move, color, no later command of that pass is dispatched.         *)

Recognized(cmd) == cmd.name \in {"penUp", "penDown", "move", "color"}

C15_UnrecognizedCommandEndsPass ==
    \A k \in 1..Len(painted) :
        \A i \in 1..Len(painted[k]) :
            ~Recognized(painted[k][i]) => i = Len(painted[k])

-----------------------------------------------------------------------------
(* C16: restoreExecutionState called with an index outside [0, number of      *)
(* states - 1], negative indexes included, is a no-op: it raises no           *)
(* exception, returns null and leaves every state unchanged.                  *)

C16_RestoreOutOfRangeIsNoOp ==
    [][\A stateIndex \in RestoreInputs :
          (RestoreCall(stateIndex)
           /\ (stateIndex < 0 \/ stateIndex >= Len(executionStates))) =>
              /\ lastCall'[1].result = "null"
              /\ executionStates' = executionStates]_vars

-----------------------------------------------------------------------------
(* C17: restoreExecutionState on a state that is not frozen fails without     *)
(* effect: it returns null, and the isActive flag of every state, the list of *)
(* states and the scrub cursor are unchanged.                                 *)

C17_RestoreOfUnfrozenIsNoOp ==
    [][\A stateIndex \in RestoreInputs :
          (/\ RestoreCall(stateIndex)
           /\ stateIndex >= 0
           /\ stateIndex < Len(executionStates)
           /\ ~executionStates[stateIndex + 1].isFrozen) =>
              /\ lastCall'[1].result = "null"
              /\ executionStates' = executionStates
              /\ currentStep' = currentStep]_vars

\* the call was made on the unfrozen child of an inactive root
C17_Witness ==
    /\ lastCall # NoList
    /\ lastCall[1].op = "restore"
    /\ lastCall[1].index = 1
    /\ lastCall[1].result = "null"
    /\ Len(executionStates) = 2
    /\ ~executionStates[2].isFrozen
    /\ ~executionStates[1].isActive

-----------------------------------------------------------------------------
(* C18: in every reachable state of the store exactly one state has           *)
(* parentVersion = null; it is the first state of the list and its version is *)
(* "1".                                                                       *)

Roots(states) == {k \in 1..Len(states) : states[k].parentVersion = Null}

C18_SingleRoot ==
    /\ Roots(executionStates) = {1}
    /\ executionStates[1].version = <<"1">>

\* two freezes: a child and a grandchild of the root
C18_Witness ==
    /\ Len(executionStates) = 3
    /\ executionStates[2].parentVersion = <<"1">>
    /\ executionStates[3].parentVersion = <<"1", ".", "1">>

-----------------------------------------------------------------------------
(* C19: states are never deleted or re-parented: under every operation the    *)
(* list of states only grows by appending, the existing states keep their     *)
(* order, and the version and parentVersion of an existing state never        *)
(* change.                                                                    *)

C19_StatesAppendOnly ==
    [][/\ Len(executionStates') >= Len(executionStates)
       /\ \A k \in 1..Len(executionStates) :
             /\ k <= Len(executionStates')
             /\ executionStates'[k].version = executionStates[k].version
             /\ executionStates'[k].parentVersion = executionStates[k].parentVersion]_vars

\* three states, after a restore that deactivated the root and a live update of the leaf
C19_Witness ==
    /\ Len(executionStates) = 3
    /\ ~executionStates[1].isActive
    /\ executionStates[3].commands = <<Move>>
    /\ lastRun = "applied"
    /\ intervals = <<>>

-----------------------------------------------------------------------------
(* C20: when the user restores a frozen state v through the Change button of  *)
(* the timeline, a new unfrozen, active child of v is added to the store, so  *)
(* that the next live update goes to that child and to no state that existed  *)
(* before the restore.                                                        *)

C20_ChangeClickAddsChild ==
    [][\A k \in 1..MaxStoreStates :
          ChangeClick(k) =>
              LET n == Len(executionStates) IN
              /\ Len(executionStates') = n + 1
              /\ executionStates'[n + 1].parentVersion = executionStates[k].version
              /\ executionStates'[n + 1].isActive
              /\ ~executionStates'[n + 1].isFrozen
              /\ LiveUpdateTarget(executionStates') = n + 1]_vars

-----------------------------------------------------------------------------
(* C21: when the user restores a frozen state v through the Change button of  *)
(* the timeline, the editor document text is set to v.code, the source text   *)
(* captured when v was frozen.                                                *)

C21_ChangeClickSetsDocument ==
    [][\A k \in 1..MaxStates :
          ChangeClick(k) => docText' = executionStates[k].code]_vars

-----------------------------------------------------------------------------
(* C22: after every DocumentChange notification, whatever the guard and the   *)
(* debounce timer, the slot "mainCode" holds the document text the editor had *)
(* when the notification arrived, the empty text included.                    *)

C22_MainCodeHoldsDocument ==
    [][\A l \in CommandLists : DocumentChange(l) => mainCode' = docText]_vars

-----------------------------------------------------------------------------
(* C23: clicking the command at index i in the timeline row of any state sets *)
(* the scrub cursor to i + 1, for every state and every i below that state's  *)
(* command count.                                                             *)

C23_CommandClickSetsCursor ==
    [][\A k \in 1..MaxStates, i \in StepInputs :
          CommandClick(k, i) => currentStep' = i + 1]_vars

-----------------------------------------------------------------------------
(* C24: toggling a state's visibility changes only that state's isVisible:    *)
(* the isActive, isFrozen, commands, code, version and parentVersion of every *)
(* state, the isVisible of every other state, the scrub cursor and the state  *)
(* selected for live updates are unchanged.                                   *)

SameButVisible(s, t) ==
    /\ s.isActive = t.isActive
    /\ s.isFrozen = t.isFrozen
    /\ s.commands = t.commands
    /\ s.code = t.code
    /\ s.version = t.version
    /\ s.parentVersion = t.parentVersion

C24_ToggleChangesOnlyVisibility ==
    [][\A k \in 1..MaxStates :
          ToggleVisibility(k) =>
             /\ Len(executionStates') = Len(executionStates)
             /\ executionStates'[k].isVisible = ~executionStates[k].isVisible
             /\ \A j \in 1..Len(executionStates) :
                   /\ SameButVisible(executionStates'[j], executionStates[j])
                   /\ j # k => executionStates'[j].isVisible = executionStates[j].isVisible
             /\ currentStep' = currentStep
             /\ LiveUpdateTarget(executionStates') = LiveUpdateTarget(executionStates)]_vars

\* a frozen, active root hidden while its unfrozen child, the live-update target, is shown
C24_Witness ==
    /\ Len(executionStates) = 2
    /\ ~executionStates[1].isVisible
    /\ executionStates[1].isActive
    /\ executionStates[1].isFrozen
    /\ executionStates[2].isVisible
    /\ LiveUpdateTarget(executionStates) = 2

-----------------------------------------------------------------------------
(* C25: at most one highlight decoration exists in the editor at any time:    *)
(* each highlight request made by the timeline (a click on a command that has *)
(* a source span) removes the previously applied highlight before adding the  *)
(* new one.                                                                   *)

C25_AtMostOneDecoration == Len(decorations) <= 1

-----------------------------------------------------------------------------
(* C26: when setCurrentStep(n) renders an active state whose command at index *)
(* n - 1 carries a source span, the render requests a highlight of that span  *)
(* from the editor: once the pass has consumed its prefix the editor holds a  *)
(* decoration of that span.                                                   *)

Decorated(location) == \E d \in 1..Len(decorations) : decorations[d] = location

C26_RenderHighlightsBoundary ==
    \A k \in 1..Len(executionStates) :
        LET commands == executionStates[k].commands IN
        ( /\ executionStates[k].isActive
          /\ ~PassInFlightOn(k)
          /\ currentStep >= 1
          /\ currentStep <= Len(commands)
          /\ painted[k] = Slice(commands, currentStep)
          /\ HasLocation(commands[currentStep]) )
        => Decorated(commands[currentStep].location)

-----------------------------------------------------------------------------
(* C27: a render request for a state with isActive = false does nothing: the  *)
(* state's surface is neither cleared nor drawn on and keeps exactly what was *)
(* last painted, and the request completes at once, no pass being started on  *)
(* the surface. Only the ticks of a pass started while the state was active   *)
(* still draw on it.                                                          *)

PassesOn(ints, k) == Cardinality({i \in 1..Len(ints) : ints[i].k = k})

C27_InactiveRenderDoesNothing ==
    [][~Tick =>
         \A k \in 1..Len(executionStates) :
            ~executionStates[k].isActive =>
               /\ painted'[k] = painted[k]
               /\ PassesOn(intervals', k) = PassesOn(intervals, k)]_vars

\* a live update has just called setCurrentStep: the pass on the leaf has its whole
\* prefix ahead, and the surface of the inactive root keeps what was painted on it
C27_Witness ==
    /\ Len(executionStates) = 3
    /\ ~executionStates[1].isActive
    /\ painted[1] # <<>>
    /\ ~PassInFlightOn(1)
    /\ executionStates[3].isActive
    /\ painted[3] = <<>>
    /\ \E i \in 1..Len(intervals) :
          /\ intervals[i].k = 3
          /\ intervals[i].cmds # <<>>
          /\ intervals[i].cmds = Slice(executionStates[3].commands, currentStep)

-----------------------------------------------------------------------------
(* C28: every call of setCurrentStep eventually resolves, given that timer    *)
(* ticks keep firing, and at the moment it resolves none of the render passes *)
(* it started is still in flight: each has consumed its whole command prefix  *)
(* and cleared its interval. The call followed to its end is the one of a     *)
(* live update, in flight exactly while running is set, with the passes of    *)
(* the slider's calls between its ticks.                                      *)

PassesOf(c) == Cardinality({i \in 1..Len(intervals) : intervals[i].call = c})

\* every timer belongs to a call in flight, which waits for exactly its timers
CallsAwaitTheirPasses ==
    /\ \A i \in 1..Len(intervals) : intervals[i].call \in 1..Len(calls)
    /\ \A c \in 1..Len(calls) : calls[c].pending = PassesOf(c) /\ PassesOf(c) >= 1

\* the step in which a call resolves: its last timer, its prefix consumed, is cleared
ResolvesOnLastPass ==
    Len(calls') < Len(calls) =>
        /\ Head(intervals).cmds = <<>>
        /\ PassesOf(Head(intervals).call) = 1
        /\ Len(intervals') = Len(intervals) - 1

-----------------------------------------------------------------------------
(* C29: a render pass never mutates the store: while and after                *)
(* updateMiniLogoCanvas consumes its command prefix one command per tick, the *)
(* commands list of every state (its length and its elements) and all other  *)
(* state fields are unchanged, because the pass works on a copy.              *)

C29_PassLeavesStoreAlone ==
    [][Tick => executionStates' = executionStates]_vars

\* the pass on the root has consumed the root's whole list, which the store still holds
C29_Witness ==
    /\ intervals = <<>>
    /\ currentStep = Len(executionStates[1].commands)
    /\ painted[1] # <<>>
    /\ painted[1] = executionStates[1].commands

-----------------------------------------------------------------------------
(* C30: debounce-and-replace: among the DocumentChange notifications that     *)
(* arrive while no live-update run is in flight and less than the 200 ms      *)
(* debounce delay apart, only the last one is ever applied: when the timer    *)
(* runs, the state selected for the live update gets the list of the latest   *)
(* notification, and no other step assigns a list to any state.               *)

C30_OnlyLastNotificationApplied ==
    [][\A k \in 1..Len(executionStates) :
          executionStates'[k].commands =
             IF TimeoutRuns /\ k = LiveUpdateTarget(executionStates)
             THEN debounce[1].latest
             ELSE executionStates[k].commands]_vars

\* the timer has run after a notification that replaced the pending timer of another
\* list: the leaf holds the list of the later one
C30_Witness ==
    /\ lastRun = "applied"
    /\ timeout = NoTimer
    /\ debounce # NoList
    /\ debounce[1].replaced # NoTimer
    /\ debounce[1].replaced[1] # debounce[1].latest
    /\ LiveUpdateTarget(executionStates) > 0
    /\ executionStates[LiveUpdateTarget(executionStates)].commands = debounce[1].latest

-----------------------------------------------------------------------------
(* C31: after a live-update run applies a command list C to the leaf state,   *)
(* that leaf's surface is redrawn with the complete list C: the run clears    *)
(* the surface and starts on it a pass over all the commands of C, whatever   *)
(* the command counts of the other states, the root included.                 *)

C31_LeafRedrawnWithWholeList ==
    [][(TimeoutRuns /\ LiveUpdateTarget(executionStates) > 0) =>
          LET idx == LiveUpdateTarget(executionStates) IN
          /\ painted'[idx] = <<>>
          /\ \E i \in 1..Len(intervals') :
                /\ intervals'[i].k = idx
                /\ intervals'[i].cmds = timeout[1]]_vars

-----------------------------------------------------------------------------
(* C32: in every reachable state exactly one state of the store is flagged    *)
(* current by TimelineManager.isCurrentVersion: it is active, has no child,   *)
(* and no active state has a lexicographically greater version.               *)

CurrentVersions(states) ==
    {k \in 1..Len(states) : isCurrentVersion(states, states[k])}

C32_ExactlyOneCurrentVersion == Cardinality(CurrentVersions(executionStates)) = 1

\* a restore has left the root inactive, and of the two active states below it the
\* childless leaf alone is current
C32_Witness ==
    /\ Len(executionStates) = 3
    /\ ~executionStates[1].isActive
    /\ executionStates[2].isActive
    /\ CurrentVersions(executionStates) = {3}

-----------------------------------------------------------------------------
(* C33: in the legacy single-file main a debounced live-update timer that was *)
(* scheduled before a scrub render began never starts its own render pass     *)
(* while that scrub render is still in flight, and running stays true until   *)
(* every in-flight render pass has completed.                                 *)

ScrubInFlight == \E c \in 1..Len(calls) : calls[c].kind = "scrub"

C33_LegacyRendersDoNotOverlap ==
    /\ [][(TimeoutRuns /\ ScrubInFlight) => Len(intervals') = Len(intervals)]_vars
    /\ [](intervals # <<>> => running)

-----------------------------------------------------------------------------
(* C34: whenever no render pass is in flight, the sequence of commands        *)
(* painted on each active state's surface since its last clear equals that    *)
(* state's commands[0, min(currentStep, commands.length)), for every          *)
(* interleaving of step, slider, command-click, freeze, restore and           *)
(* live-update events.                                                        *)

C34_IdleSurfacesShowPrefix ==
    intervals = <<>> =>
        \A k \in 1..Len(executionStates) :
            executionStates[k].isActive =>
                painted[k] = Slice(executionStates[k].commands, currentStep)

-----------------------------------------------------------------------------
(* C35: when the freeze handler freezes a state, the code captured into that  *)
(* state is the source text from which the state's commands were compiled: a  *)
(* frozen state's code and commands always belong to the same revision of the *)
(* document, also when an edit's DocumentChange notification is still waiting *)
(* in the debounce timer or was dropped by the running guard.                 *)

C35_FrozenCodeMatchesCommands ==
    \A k \in 1..Len(executionStates) :
        executionStates[k].isFrozen =>
            executionStates[k].commands = Compile(executionStates[k].code)

-----------------------------------------------------------------------------
(* C36: in every reachable state the last state of the store's list is        *)
(* active, not frozen and has no child, so the state a live-update run        *)
(* selects (the last active childless state) is always the state the freeze   *)
(* handler would freeze (the last state of the list), and an eligible leaf    *)
(* always exists.                                                             *)

C36_LastStateIsTheLeaf ==
    LET n == Len(executionStates) IN
    /\ n >= 1
    /\ executionStates[n].isActive
    /\ ~executionStates[n].isFrozen
    /\ ~hasChildren(executionStates, executionStates[n])
    /\ latestActiveIndex(executionStates) = n
    /\ LiveUpdateTarget(executionStates) = n
    /\ FreezeTarget(executionStates) = n

\* after a restore of "1.1" has left the root inactive, a live update has given its
\* commands to the last state
C36_Witness ==
    /\ Len(executionStates) = 3
    /\ ~executionStates[1].isActive
    /\ executionStates[2].isActive
    /\ lastRun = "applied"
    /\ executionStates[3].commands # <<>>
    /\ executionStates[2].commands # executionStates[3].commands

-----------------------------------------------------------------------------
(* C37: at most one live-update run is in progress at any time: a             *)
(* DocumentChange timeout callback never begins (sets running = true) while   *)
(* another callback's run has not yet reset running to false, and at most one *)
(* debounce timer is pending at any time.                                     *)

LiveCallsInFlight == Cardinality({c \in 1..Len(calls) : calls[c].kind = "live"})

C37_AtMostOneLiveRun ==
    /\ [][TimeoutRuns => ~running]_vars
    /\ [](/\ Len(timeout) <= 1
          /\ running => timeout = NoTimer
          /\ LiveCallsInFlight = IF running THEN 1 ELSE 0)

\* a notification has arrived during the run of a live update and has set no timer
C37_Witness ==
    /\ running
    /\ LiveCallsInFlight = 1
    /\ deferred # NoList
    /\ timeout = NoTimer

-----------------------------------------------------------------------------
(* C38: the running guard is always eventually released: every DocumentChange *)
(* timeout callback that sets running = true eventually sets it back to       *)
(* false, whether the selected leaf is frozen, missing, or rendered, and also *)
(* when a command of the received list has an unrecognized tag, so later      *)
(* notifications are never dropped forever.                                   *)

\* the callback that finds its leaf frozen or missing returns with running = false
ReleasedAtOnce ==
    (TimeoutRuns /\ LiveUpdateTarget(executionStates) = 0) =>
        (~running' /\ lastRun' \in {"frozen", "noleaf"})

C38_RunningGuardReleased ==
    /\ []<>(~running)
    /\ [][ReleasedAtOnce]_vars

\* the run of a live update has ended although its list held a command with an
\* unrecognized tag: the pass went on to the commands after it and resolved
C38_Witness ==
    /\ lastRun = "applied"
    /\ ~running
    /\ intervals = <<>>
    /\ \E k \in 1..Len(executionStates) :
          /\ executionStates[k].isActive
          /\ painted[k] = <<Jump, Move>>
          /\ painted[k] = executionStates[k].commands

-----------------------------------------------------------------------------
(* C39: in every reachable state the scrub cursor satisfies                   *)
(* 0 <= currentStep <= (command count of the first state of the list, the    *)
(* root), also immediately after a live update replaces the root's commands   *)
(* with a shorter list.                                                       *)

C39_CursorWithinRootCount ==
    /\ 0 <= currentStep
    /\ currentStep <= Len(executionStates[1].commands)

\* a live update has just replaced the root's commands by the empty list, while a pass
\* of a scrub over the longer list it had is still in flight
C39_Witness ==
    /\ running
    /\ lastRun = "applied"
    /\ executionStates[1].commands = <<>>
    /\ currentStep = 0
    /\ \E i \in 1..Len(intervals) : intervals[i].k = 1 /\ intervals[i].cmds # <<>>

====
